---------------------------- MODULE Spec2Model ----------------------------
(***************************************************************************)
(* Frame Streams (ts-framestream): the control-message codec, the data     *)
(* frame codec and the two sender handshakes of the repository             *)
(*   - Writer.init            over Encoder.sendControlFrame / Encoder.recv *)
(*   - SocketWriter.handshake over Control.encode / SocketWriter.recv      *)
(* Buffers are sequences of bytes (0..255); strings are sequences of code  *)
(* points, a value in 55296..57343 standing for an unpaired surrogate.     *)
(***************************************************************************)
EXTENDS Integers, Sequences, FiniteSets, TLC

(***************************************************************************)
(* Program constants                                                       *)
(***************************************************************************)
ACCEPT == 1
START == 2
STOP == 3
READY == 4
FINISH == 5
CONTENT_TYPE == 1
CONTROL_FRAME_LENGTH_MAX == 512
CONTROL_FIELD_CONTENT_TYPE_LENGTH_MAX == 512
HANDSHAKE_TIMEOUT == 5000

ControlFrameType == {ACCEPT, START, STOP, READY, FINISH}

ESCAPE_SEQUENCE == <<0, 0, 0, 0>>

FrameType_CONTROL == 0
FrameType_DATA == 1

(***************************************************************************)
(* Bounds of the model                                                     *)
(***************************************************************************)
\* longest content-type list drawn as an input of the codec
MaxTypes == 2
\* most 'data' events the socket emits in one run
MaxChunks == 2
\* longest buffer drawn byte by byte as an input of the decoders
MaxBufferLen == 4
\* a session makes no further call once it has passed this many buffers to
\* socket.write
MaxWrites == 4

(***************************************************************************)
(* Optional values (contentTypes?: string[])                               *)
(***************************************************************************)
None == [def |-> FALSE, val |-> <<>>]

Some(v) == [def |-> TRUE, val |-> v]

\* JavaScript truthiness of an optional array: undefined is falsy, every
\* array (the empty one included) is truthy
Truthy(opt) == opt.def

(***************************************************************************)
(* Buffer primitives                                                       *)
(***************************************************************************)
\* the four bytes in little-endian order
writeUInt32LE(n) ==
  << n % 256, (n \div 256) % 256, (n \div 65536) % 256, (n \div 16777216) % 256 >>

\* Buffer.alloc(4) + writeUInt32BE(n, 0)
writeUInt32BE(n) ==
  << (n \div 16777216) % 256, (n \div 65536) % 256, (n \div 256) % 256, n % 256 >>

\* buf.subarray(start, end), 0-based, end exclusive, clamped to the buffer
subarray(buf, start, end) ==
  LET s == IF start > Len(buf) THEN Len(buf) ELSE start
      e == IF end > Len(buf) THEN Len(buf) ELSE end
  IN  IF e <= s THEN <<>> ELSE SubSeq(buf, s + 1, e)

\* buf.readUInt32BE(0) can be evaluated (4 bytes are there); otherwise Node
\* throws a RangeError
canReadUInt32BE(buf) == Len(buf) >= 4

\* the largest integer of the model checker; a 32-bit value of 2^31 or more
\* is read as this number (every use of a value read compares it with a type
\* code or with a limit of 512, or adds it to an offset below 2^10)
UInt32Cap == 2147482623

\* buf.readUInt32BE(0)
readUInt32BE(buf) ==
  IF buf[1] >= 128 \/ (buf[1] = 127 /\ buf[2] = 255 /\ buf[3] >= 252)
    THEN UInt32Cap
    ELSE buf[1] * 16777216 + buf[2] * 65536 + buf[3] * 256 + buf[4]

RECURSIVE concat(_)
\* Buffer.concat(buffers)
concat(buffers) ==
  IF buffers = <<>> THEN <<>> ELSE Head(buffers) \o concat(Tail(buffers))

(***************************************************************************)
(* UTF-8, as Buffer.from(string), Buffer.byteLength(string) and            *)
(* buffer.toString() compute it                                            *)
(***************************************************************************)
REPLACEMENT == 65533

IsSurrogate(c) == c >= 55296 /\ c <= 57343

\* the UTF-8 bytes of one code point; an unpaired surrogate is written as
\* U+FFFD (EF BF BD)
Utf8EncodeChar(c) ==
  IF c < 128 THEN << c >>
  ELSE IF c < 2048 THEN << 192 + (c \div 64), 128 + (c % 64) >>
  ELSE IF IsSurrogate(c) THEN << 239, 191, 189 >>
  ELSE IF c < 65536
    THEN << 224 + (c \div 4096), 128 + ((c \div 64) % 64), 128 + (c % 64) >>
  ELSE << 240 + (c \div 262144), 128 + ((c \div 4096) % 64),
          128 + ((c \div 64) % 64), 128 + (c % 64) >>

RECURSIVE ConcatRange(_, _, _)
\* f[lo] \o ... \o f[hi] for a sequence f of sequences, by halving
ConcatRange(f, lo, hi) ==
  IF lo > hi THEN <<>>
  ELSE IF lo = hi THEN f[lo]
  ELSE LET mid == (lo + hi) \div 2
       IN  ConcatRange(f, lo, mid) \o ConcatRange(f, mid + 1, hi)

\* Buffer.from(str): the UTF-8 encoding of the string
BufferFrom(str) ==
  ConcatRange([i \in 1..Len(str) |-> Utf8EncodeChar(str[i])], 1, Len(str))

\* the length in UTF-16 code units taken for the length in bytes
byteLength_CodeUnits(str) == Len(str)

\* Buffer.byteLength(str)
byteLength(str) == Len(BufferFrom(str))

IsCont(b, i, lo, hi) == i <= Len(b) /\ b[i] >= lo /\ b[i] <= hi

\* one step of the UTF-8 decoder at position i (1-based): the code point and
\* the number of bytes used; an ill-formed sequence gives U+FFFD for its
\* maximal subpart
Utf8DecodeAt(b, i) ==
  LET b1 == b[i]
  IN  IF b1 < 128 THEN [cp |-> b1, n |-> 1]
      ELSE IF b1 >= 194 /\ b1 <= 223 THEN
        IF IsCont(b, i + 1, 128, 191)
          THEN [cp |-> (b1 - 192) * 64 + (b[i + 1] - 128), n |-> 2]
          ELSE [cp |-> REPLACEMENT, n |-> 1]
      ELSE IF b1 >= 224 /\ b1 <= 239 THEN
        LET lo == IF b1 = 224 THEN 160 ELSE 128
            hi == IF b1 = 237 THEN 159 ELSE 191
        IN  IF ~IsCont(b, i + 1, lo, hi) THEN [cp |-> REPLACEMENT, n |-> 1]
            ELSE IF ~IsCont(b, i + 2, 128, 191) THEN [cp |-> REPLACEMENT, n |-> 2]
            ELSE [cp |-> (b1 - 224) * 4096 + (b[i + 1] - 128) * 64 + (b[i + 2] - 128),
                  n |-> 3]
      ELSE IF b1 >= 240 /\ b1 <= 244 THEN
        LET lo == IF b1 = 240 THEN 144 ELSE 128
            hi == IF b1 = 244 THEN 143 ELSE 191
        IN  IF ~IsCont(b, i + 1, lo, hi) THEN [cp |-> REPLACEMENT, n |-> 1]
            ELSE IF ~IsCont(b, i + 2, 128, 191) THEN [cp |-> REPLACEMENT, n |-> 2]
            ELSE IF ~IsCont(b, i + 3, 128, 191) THEN [cp |-> REPLACEMENT, n |-> 3]
            ELSE [cp |-> (b1 - 240) * 262144 + (b[i + 1] - 128) * 4096
                         + (b[i + 2] - 128) * 64 + (b[i + 3] - 128),
                  n |-> 4]
      ELSE [cp |-> REPLACEMENT, n |-> 1]

\* The decoder scans left to right, each step starting where the previous
\* one ended. A byte that can begin a multi-byte sequence (>= 192) is never a
\* continuation byte, so position i begins a step exactly when no step
\* beginning at one of the three positions before it reaches over i.
Utf8IsStart(b, i) ==
  \A k \in 1..3 : (i - k >= 1) => Utf8DecodeAt(b, i - k).n <= k

\* buf.toString(): UTF-8 decoding with replacement
toString(buf) ==
  ConcatRange([i \in 1..Len(buf) |->
                 IF Utf8IsStart(buf, i) THEN << Utf8DecodeAt(buf, i).cp >> ELSE <<>>],
              1, Len(buf))

(***************************************************************************)
(* Control: the control-message codec                                      *)
(***************************************************************************)
RECURSIVE encodeFields_NulTerminated(_)
\* each string written with a terminating zero byte, counted in its length
encodeFields_NulTerminated(list) ==
  IF list = <<>> THEN <<>>
  ELSE writeUInt32BE(CONTENT_TYPE)
       \o writeUInt32BE(byteLength(Head(list)) + 1)
       \o BufferFrom(Head(list)) \o << 0 >>
       \o encodeFields_NulTerminated(Tail(list))

RECURSIVE encodeFields(_)
\* the loop of Control.encode (and, verbatim, of Encoder.sendControlFrame):
\* per content type the CONTENT_TYPE field type, the UTF-8 byte length and
\* the UTF-8 bytes
encodeFields(list) ==
  IF list = <<>> THEN <<>>
  ELSE writeUInt32BE(CONTENT_TYPE)
       \o writeUInt32BE(byteLength(Head(list)))
       \o BufferFrom(Head(list))
       \o encodeFields(Tail(list))

\* the guard with STOP alone
fieldNotAllowed_StopOnly(type, contentTypes) ==
  Truthy(contentTypes) /\ type = STOP

\* the guard shared by Control.encode and Encoder.sendControlFrame:
\* if (contentTypes && (type === STOP || type === FINISH)) throw
fieldNotAllowed(type, contentTypes) ==
  Truthy(contentTypes) /\ (type = STOP \/ type = FINISH)

\* static Control.encode(type, contentTypes?)
Control_encode(type, contentTypes) ==
  IF fieldNotAllowed(type, contentTypes)
    THEN [ok |-> FALSE, err |-> "FieldNotAllowed", bytes |-> <<>>]
    ELSE [ok |-> TRUE, err |-> "",
          bytes |-> writeUInt32BE(type)
                    \o (IF Truthy(contentTypes)
                          THEN encodeFields(contentTypes.val) ELSE <<>>)]

DecodeError(kind, observed) ==
  [ok |-> FALSE, err |-> kind, value |-> observed, type |-> 0, contentTypes |-> <<>>]

DecodeOk(t, list) ==
  [ok |-> TRUE, err |-> "", value |-> 0, type |-> t, contentTypes |-> list]

\* no limit on the declared length of a field
Control_fieldTooLong_Never(length) == FALSE

\* if (length > CONTROL_FIELD_CONTENT_TYPE_LENGTH_MAX) throw
Control_fieldTooLong(length) == length > CONTROL_FIELD_CONTENT_TYPE_LENGTH_MAX

RECURSIVE decodeFields(_, _, _)
\* the while loop of Control.decode over contentTypesBuffer, offset 0-based.
\* A header read of fewer than 4 bytes makes readUInt32BE throw a RangeError;
\* the value is taken with subarray, which clamps to the buffer.
decodeFields(buf, offset, acc) ==
  IF ~(offset < Len(buf)) THEN DecodeOk(0, acc)
  ELSE
    LET typeBytes == subarray(buf, offset, offset + 4)
    IN  IF ~canReadUInt32BE(typeBytes) THEN DecodeError("RangeError", Len(typeBytes))
        ELSE IF readUInt32BE(typeBytes) # CONTENT_TYPE
          THEN DecodeError("InvalidField", readUInt32BE(typeBytes))
        ELSE
          LET lenBytes == subarray(buf, offset + 4, offset + 8)
          IN  IF ~canReadUInt32BE(lenBytes)
                THEN DecodeError("RangeError", Len(lenBytes))
              ELSE
                LET length == readUInt32BE(lenBytes)
                IN  IF Control_fieldTooLong(length)
                      THEN DecodeError("FieldTooLong", length)
                      ELSE decodeFields(buf, offset + 8 + length,
                             Append(acc,
                               toString(subarray(buf, offset + 8, offset + 8 + length))))

\* only the empty buffer taken as too short
Control_tooShort_EmptyOnly(buffer) == Len(buffer) = 0

\* if (buffer.length < 4) throw
Control_tooShort(buffer) == Len(buffer) < 4

\* the limit taken as exclusive
Control_lengthExceeded_AtLimit(cfData) == Len(cfData) >= CONTROL_FRAME_LENGTH_MAX

\* if (cfData.length > CONTROL_FRAME_LENGTH_MAX) throw
Control_lengthExceeded(cfData) == Len(cfData) > CONTROL_FRAME_LENGTH_MAX

\* a range check in place of the membership test
Control_validType_UpToFinish(t) == t <= FINISH

\* Object.values(ControlFrameType).includes(controlFrameType): the values of
\* a numeric enum are its member names and its numbers
Control_validType(t) == t \in ControlFrameType

\* static Control.decode(buffer)
Control_decode(buffer) ==
  IF Control_tooShort(buffer) THEN DecodeError("TooShort", Len(buffer))
  ELSE IF Control_lengthExceeded(subarray(buffer, 4, Len(buffer)))
    THEN DecodeError("LengthExceeded", Len(buffer))
  ELSE IF ~canReadUInt32BE(subarray(buffer, 0, 4))
    THEN DecodeError("RangeError", Len(buffer))
  ELSE
    LET controlFrameType == readUInt32BE(subarray(buffer, 0, 4))
    IN  IF ~Control_validType(controlFrameType)
          THEN DecodeError("InvalidType", controlFrameType)
          ELSE
            LET r == decodeFields(subarray(buffer, 4, Len(buffer)), 0, <<>>)
            IN  IF r.ok THEN DecodeOk(controlFrameType, r.contentTypes) ELSE r

\* every configured type required in the argument, not some
Control_checkContentTypes_Every(own, contentType) ==
  IF ~Truthy(own) THEN FALSE
  ELSE \A i \in 1..Len(own.val) :
         \E j \in 1..Len(contentType) : contentType[j] = own.val[i]

\* Control.checkContentTypes(contentType) of an instance configured with
\* `own` (this.contentTypes)
Control_checkContentTypes(own, contentType) ==
  IF ~Truthy(own) THEN FALSE
  ELSE \E i \in 1..Len(own.val) :
         \E j \in 1..Len(contentType) : contentType[j] = own.val[i]

(***************************************************************************)
(* Encoder (encoder/Encoder): the data-frame codec                         *)
(***************************************************************************)
\* the length word counting itself
Encoder_encode_Total(buf) == writeUInt32BE(Len(buf) + 4) \o buf

\* Encoder.encode(buf)
Encoder_encode(buf) == writeUInt32BE(Len(buf)) \o buf

\* a short buffer read as an empty frame
Encoder_decode_Lenient(buf) ==
  IF ~canReadUInt32BE(buf)
    THEN [ok |-> TRUE, err |-> "", size |-> 0, payload |-> <<>>]
    ELSE [ok |-> TRUE, err |-> "", size |-> readUInt32BE(buf),
          payload |-> subarray(buf, 4, Len(buf))]

\* Encoder.decode(buf): readUInt32BE(0) throws on fewer than 4 bytes
Encoder_decode(buf) ==
  IF ~canReadUInt32BE(buf)
    THEN [ok |-> FALSE, err |-> "RangeError", size |-> 0, payload |-> <<>>]
    ELSE [ok |-> TRUE, err |-> "", size |-> readUInt32BE(buf),
          payload |-> subarray(buf, 4, Len(buf))]

(***************************************************************************)
(* Encoder / Decoder of the socket layer                                   *)
(***************************************************************************)
\* static Encoder.bufferToControlFrameType(buffer): buffer.readUInt32BE(0)
bufferToControlFrameType(buffer) == readUInt32BE(buffer)

\* the first byte alone compared
detectFrameType_FirstByte(buffer) ==
  IF subarray(buffer, 0, 1) = << 0 >> THEN FrameType_CONTROL ELSE FrameType_DATA

\* Decoder.detectFrameType(buffer)
detectFrameType(buffer) ==
  IF subarray(buffer, 0, 4) = ESCAPE_SEQUENCE THEN FrameType_CONTROL ELSE FrameType_DATA

(***************************************************************************)
(* State                                                                   *)
(***************************************************************************)
VARIABLES
  impl,           \* "Writer" (Writer.init) or "SocketWriter" (handshake)
  bidirectional,  \* this.bidirectional
  contentTypes,   \* this.contentTypes (optional)
  pc,             \* position of init()/handshake(): "Init", "AwaitWrite",
                  \* "AwaitAccept", "ReadyForData" (resolved), "Failed" (rejected)
  failure,        \* the error init()/handshake() rejected with
  written,        \* the buffers passed to socket.write, in order
  sent,           \* history: the control-message payloads handed over for sending
  listeners,      \* listeners of the pending read registered on the socket
  timer,          \* the read's setTimeout: "none", "armed", "fired"
  read,           \* the promise returned by recv
  settleCalls,    \* history: calls of the read's resolve/reject
  firstEvent,     \* history: first event fired after the read started
  sock,           \* "open", "errored" (close still to come), "closed"
  delivered,      \* number of 'data' events emitted so far
  cStage,         \* codec runs: "input", "encoded", "decoded"
  cType,          \* codec input: control type
  cTypes,         \* codec input: content types (optional)
  cEnc,           \* result of Control.encode
  cDec,           \* result of Control.decode
  cSend,          \* codec runs: Encoder.sendControlFrame "none", "sent", "threw"
  bIn,            \* buffer runs: the input buffer
  dCtl,           \* result of Control.decode(bIn)
  dFrame,         \* result of Encoder.decode(bIn)
  dKind,          \* result of Decoder.detectFrameType(bIn)
  dEnc,           \* result of Encoder.encode(bIn)
  dRound,         \* result of Encoder.decode(Encoder.encode(bIn))
  dEncKind,       \* result of Decoder.detectFrameType(Encoder.encode(bIn))
  dSent,          \* Encoder.sendFrame(socket, bIn) has run
  kOwn,           \* negotiation runs: this.contentTypes of the Control instance
  kCand,          \* negotiation runs: the argument of checkContentTypes
  kRes            \* result of checkContentTypes: "none", "true", "false"

hsVars == << impl, bidirectional, contentTypes, pc, failure, written, sent,
             listeners, timer, read, settleCalls, firstEvent, sock, delivered >>

codecVars == << cStage, cType, cTypes, cEnc, cDec, cSend >>

bufVars == << bIn, dCtl, dFrame, dKind, dEnc, dRound, dEncKind, dSent >>

negVars == << kOwn, kCand, kRes >>

\* the variables of the runs of pure functions
pureVars == << codecVars, bufVars, negVars >>

vars == << hsVars, pureVars >>

(***************************************************************************)
(* Inputs                                                                  *)
(***************************************************************************)
\* "application/dns-tap"
AppDnsTap ==
  << 97, 112, 112, 108, 105, 99, 97, 116, 105, 111, 110, 47, 100, 110, 115, 45,
     116, 97, 112 >>

\* "text/plain"
TextPlain == << 116, 101, 120, 116, 47, 112, 108, 97, 105, 110 >>

\* U+00E9, U+20AC, U+1F600: 2-, 3- and 4-byte UTF-8
NonAscii == << 233, 8364, 128512 >>

\* a string holding an unpaired surrogate (not well-formed UTF-16)
LoneSurrogate == << 55296 >>

\* 'a'.repeat(n)
Repeat(n) == [i \in 1..n |-> 97]

\* the content-type strings the codec is run on: short ones, and long ones
\* around the two 512-byte limits
CodecStrings ==
  { <<>>, << 97 >>, NonAscii, LoneSurrogate,
    Repeat(CONTROL_FRAME_LENGTH_MAX - 8),
    Repeat(CONTROL_FRAME_LENGTH_MAX - 7),
    Repeat(CONTROL_FIELD_CONTENT_TYPE_LENGTH_MAX) }

\* sequences over S of length at most n
SeqUpTo(S, n) == UNION { [1..k -> S] : k \in 0..n }

CodecLists == SeqUpTo(CodecStrings, MaxTypes)

\* the content-type lists of a DNS tap sender
ScenarioLists == { << AppDnsTap >>, << AppDnsTap, TextPlain >> }

\* the configurations of a writer
ConfiguredTypes ==
  { None, Some(<<>>), Some(<< AppDnsTap >>), Some(<< AppDnsTap, TextPlain >>) }

NoFailure == [kind |-> "", observed |-> 0]

Failure(kind, observed) == [kind |-> kind, observed |-> observed]

NoRead == [state |-> "none", data |-> <<>>, reason |-> ""]

Pending == [state |-> "pending", data |-> <<>>, reason |-> ""]

Resolve(data) == [state |-> "resolved", data |-> data, reason |-> ""]

Reject(reason) == [state |-> "rejected", data |-> <<>>, reason |-> reason]

NoEnc == [ok |-> FALSE, err |-> "", bytes |-> <<>>]

NoDec == DecodeError("", 0)

(***************************************************************************)
(* The peer: what it may deliver, written from the wire format             *)
(***************************************************************************)
BigEndian32(n) ==
  << (n \div 16777216) % 256, (n \div 65536) % 256, (n \div 256) % 256, n % 256 >>

\* one CONTENT_TYPE field holding an ASCII string
WireField(str) == BigEndian32(1) \o BigEndian32(Len(str)) \o str

RECURSIVE WireFields(_)
WireFields(list) ==
  IF list = <<>> THEN <<>> ELSE WireField(Head(list)) \o WireFields(Tail(list))

\* a control-message payload: type, then the fields
WireMessage(type, list) == BigEndian32(type) \o WireFields(list)

\* a control frame: escape marker, length, payload
WireControlFrame(payload) ==
  << 0, 0, 0, 0 >> \o BigEndian32(Len(payload)) \o payload

\* the lists of content types a message of the peer carries
PeerLists == SeqUpTo({AppDnsTap, TextPlain}, 1)

\* the chunks a 'data' event may carry
PeerChunks ==
  { WireMessage(ACCEPT, <<>>),
    WireMessage(ACCEPT, << AppDnsTap >>),
    WireMessage(ACCEPT, << TextPlain >>),
    WireMessage(START, <<>>),
    WireMessage(START, << AppDnsTap >>),
    WireMessage(999, <<>>),
    << 0, 0 >>,
    WireControlFrame(WireMessage(ACCEPT, << AppDnsTap >>)) }

(***************************************************************************)
(* Encoder (socket layer): sending and receiving                           *)
(***************************************************************************)
\* Encoder.sendControlFrame(socket, type, contentTypes): the three buffers
\* written to the socket, or a throw before anything is written
Encoder_sendControlFrame(type, cts) ==
  IF fieldNotAllowed(type, cts)
    THEN [ok |-> FALSE, chunks |-> <<>>, payload |-> <<>>]
    ELSE
      LET finalBuffer ==
            concat(<< writeUInt32BE(type),
                      IF Truthy(cts) THEN encodeFields(cts.val) ELSE <<>> >>)
      IN  [ok |-> TRUE,
           chunks |-> << ESCAPE_SEQUENCE, writeUInt32BE(Len(finalBuffer)), finalBuffer >>,
           payload |-> finalBuffer]

\* a frame without payload is not sent
Encoder_sendFrame_SkipEmpty(frame) ==
  IF frame = <<>> THEN <<>> ELSE << writeUInt32BE(Len(frame)), frame >>

\* Encoder.sendFrame(socket, frame): two writes
Encoder_sendFrame(frame) == << writeUInt32BE(Len(frame)), frame >>

\* Encoder.recv: socket.once('data'|'error'|'close', ...)
Encoder_recv_listeners == {"data", "error", "close"}

\* Encoder.recv: if (timeout) setTimeout(..., timeout)
Encoder_recv_timer(timeout) == IF timeout # 0 THEN "armed" ELSE "none"

\* cleanup() of Encoder.recv: socket.off for the three listeners
Encoder_recv_cleanup(ls) == ls \ {"data", "error", "close"}

\* the four callbacks of Encoder.recv: each runs cleanup(), then settles
Encoder_recv_onData(data) ==
  [listeners |-> Encoder_recv_cleanup(listeners), outcome |-> Resolve(data)]

Encoder_recv_onError ==
  [listeners |-> Encoder_recv_cleanup(listeners), outcome |-> Reject("TransportError")]

Encoder_recv_onClose ==
  [listeners |-> Encoder_recv_cleanup(listeners), outcome |-> Reject("TransportClosed")]

Encoder_recv_onTimeout ==
  [listeners |-> Encoder_recv_cleanup(listeners), outcome |-> Reject("Timeout")]

(***************************************************************************)
(* Writer.init                                                             *)
(***************************************************************************)
\* the READY/ACCEPT exchange run whatever the mode
Writer_sendsReady_Always(bidir) == TRUE

\* if (this.bidirectional)
Writer_sendsReady(bidir) == bidir

\* the type check dropped: any reply lets init go on
Writer_isAccept_Any(respType) == TRUE

\* the check made against the type of the message sent, not the one awaited
Writer_isAccept_Start(respType) == respType = START

\* respType !== ControlFrameType.ACCEPT is the failure
Writer_isAccept(respType) == respType = ACCEPT

\* Writer.init after `await recv`: the rest of the function, run when the
\* read has settled with `outcome`
Writer_init_resume(outcome) ==
  IF outcome.state = "rejected"
    THEN [pc |-> "Failed", failure |-> Failure(outcome.reason, 0),
          chunks |-> <<>>, msgs |-> <<>>]
  ELSE IF ~canReadUInt32BE(outcome.data)
    THEN [pc |-> "Failed", failure |-> Failure("RangeError", Len(outcome.data)),
          chunks |-> <<>>, msgs |-> <<>>]
  ELSE
    LET respType == bufferToControlFrameType(outcome.data)
        start == Encoder_sendControlFrame(START, contentTypes)
    IN  IF ~Writer_isAccept(respType)
          THEN [pc |-> "Failed", failure |-> Failure("UnexpectedType", respType),
                chunks |-> <<>>, msgs |-> <<>>]
          ELSE [pc |-> "ReadyForData", failure |-> NoFailure,
                chunks |-> start.chunks, msgs |-> << start.payload >>]

(***************************************************************************)
(* SocketWriter                                                            *)
(***************************************************************************)
\* SocketWriter.writeFrame(frame): one write of encoder.encode(frame)
SocketWriter_writeFrame(frame) == << Encoder_encode(frame) >>

\* no timer set by recv
SocketWriter_recv_timer_Unarmed(timeout) == "none"

\* SocketWriter.recv: if (timeout !== undefined) setTimeout(...)
SocketWriter_recv_timer(timeout) == IF timeout.def THEN "armed" ELSE "none"

\* SocketWriter.recv: this.socket.once('data', ...)
SocketWriter_recv_listeners == {"data"}

\* the once('data') callback: the listener removes itself, then resolve(data)
SocketWriter_recv_onData(data) ==
  [listeners |-> listeners \ {"data"}, outcome |-> Resolve(data)]

\* the setTimeout callback: reject only
SocketWriter_recv_onTimeout ==
  [listeners |-> listeners, outcome |-> Reject("Timeout")]

\* if (contentTypes && !this.control.checkContentTypes(contentTypes)) throw
SocketWriter_unsupported(own, received) ==
  Truthy(Some(received)) /\ ~Control_checkContentTypes(own, received)

\* SocketWriter.handshake after `await this.recv(5000)`
SocketWriter_handshake_resume(outcome) ==
  IF outcome.state = "rejected"
    THEN [pc |-> "Failed", failure |-> Failure(outcome.reason, 0),
          chunks |-> <<>>, msgs |-> <<>>]
  ELSE
    LET d == Control_decode(outcome.data)
    IN  IF ~d.ok
          THEN [pc |-> "Failed", failure |-> Failure(d.err, d.value),
                chunks |-> <<>>, msgs |-> <<>>]
        ELSE IF d.type # ACCEPT
          THEN [pc |-> "Failed", failure |-> Failure("UnexpectedType", d.type),
                chunks |-> <<>>, msgs |-> <<>>]
        ELSE IF SocketWriter_unsupported(contentTypes, d.contentTypes)
          THEN [pc |-> "Failed", failure |-> Failure("UnsupportedContentType", 0),
                chunks |-> <<>>, msgs |-> <<>>]
        ELSE [pc |-> "ReadyForData", failure |-> NoFailure,
              chunks |-> <<>>, msgs |-> <<>>]

(***************************************************************************)
(* Handshake: initial states and actions                                   *)
(***************************************************************************)
NoFrame == [ok |-> FALSE, err |-> "", size |-> 0, payload |-> <<>>]

\* no run of a pure function on a buffer
IdleBuffers ==
  /\ bIn = <<>>
  /\ dCtl = NoDec
  /\ dFrame = NoFrame
  /\ dKind = -1
  /\ dEnc = None
  /\ dRound = NoFrame
  /\ dEncKind = -1
  /\ dSent = FALSE

\* no run of checkContentTypes
IdleNegotiation ==
  /\ kOwn = None
  /\ kCand = <<>>
  /\ kRes = "none"

\* no run of the control-message codec
IdleCodec ==
  /\ cStage = "off"
  /\ cType = 0
  /\ cTypes = None
  /\ cEnc = NoEnc
  /\ cDec = NoDec
  /\ cSend = "none"

\* no handshake
IdleHandshake ==
  /\ impl = "none"
  /\ bidirectional = FALSE
  /\ contentTypes = None
  /\ pc = "off"
  /\ failure = NoFailure
  /\ written = <<>>
  /\ sent = <<>>
  /\ listeners = {}
  /\ timer = "none"
  /\ read = NoRead
  /\ settleCalls = 0
  /\ firstEvent = "none"
  /\ sock = "open"
  /\ delivered = 0

Init ==
  /\ impl \in {"Writer", "SocketWriter"}
  /\ bidirectional \in BOOLEAN
  /\ contentTypes \in ConfiguredTypes
  /\ pc = "Init"
  /\ failure = NoFailure
  /\ written = <<>>
  /\ sent = <<>>
  /\ listeners = {}
  /\ timer = "none"
  /\ read = NoRead
  /\ settleCalls = 0
  /\ firstEvent = "none"
  /\ sock = "open"
  /\ delivered = 0
  /\ IdleCodec
  /\ IdleBuffers
  /\ IdleNegotiation

\* the rest of init()/handshake() once the read has settled
Resume(outcome) ==
  IF impl = "Writer" THEN Writer_init_resume(outcome)
  ELSE SocketWriter_handshake_resume(outcome)

\* a callback of the pending read runs: it changes the listeners and calls
\* resolve/reject; a settled promise ignores the call, a pending one settles
\* and the awaiting function continues before any other event is handled
RunCallback(h) ==
  /\ listeners' = h.listeners
  /\ settleCalls' = settleCalls + 1
  /\ IF read.state = "pending"
       THEN LET k == Resume(h.outcome)
            IN  /\ read' = h.outcome
                /\ pc' = k.pc
                /\ failure' = k.failure
                /\ written' = written \o k.chunks
                /\ sent' = sent \o k.msgs
       ELSE UNCHANGED << read, pc, failure, written, sent >>

NoCallback ==
  UNCHANGED << listeners, settleCalls, read, pc, failure, written, sent >>

First(ev) == IF firstEvent = "none" /\ read.state # "none" THEN ev ELSE firstEvent

\* the body of Writer.init up to its first wait: it reads this.bidirectional
\* and this.contentTypes and nothing else of the object
Writer_init_body ==
  /\ IF Writer_sendsReady(bidirectional)
       THEN LET ready == Encoder_sendControlFrame(READY, contentTypes)
            IN  /\ written' = written \o ready.chunks
                /\ sent' = Append(sent, ready.payload)
                /\ listeners' = listeners \cup Encoder_recv_listeners
                /\ timer' = Encoder_recv_timer(HANDSHAKE_TIMEOUT)
                /\ read' = Pending
                /\ pc' = "AwaitAccept"
       ELSE LET start == Encoder_sendControlFrame(START, contentTypes)
            IN  /\ written' = written \o start.chunks
                /\ sent' = Append(sent, start.payload)
                /\ pc' = "ReadyForData"
                /\ UNCHANGED << listeners, timer, read >>
  /\ UNCHANGED << impl, bidirectional, contentTypes, failure, settleCalls,
                  firstEvent, sock, delivered, pureVars >>

\* Writer.init() is called
Writer_init ==
  /\ impl = "Writer"
  /\ pc = "Init"
  /\ Writer_init_body

\* the body of SocketWriter.handshake up to its first wait: READY goes out
\* through writeFrame, whose promise waits for the write callback
SocketWriter_handshake_body ==
  /\ LET ready == Control_encode(READY, contentTypes)
     IN  /\ written' = written \o SocketWriter_writeFrame(ready.bytes)
         /\ sent' = Append(sent, ready.bytes)
  /\ pc' = "AwaitWrite"
  /\ UNCHANGED << impl, bidirectional, contentTypes, failure, listeners, timer,
                  read, settleCalls, firstEvent, sock, delivered, pureVars >>

\* SocketWriter.handshake() is called
SocketWriter_handshake ==
  /\ impl = "SocketWriter"
  /\ pc = "Init"
  /\ SocketWriter_handshake_body

\* the write callback reports success: handshake goes on to this.recv(5000)
SocketWriter_writeDone ==
  /\ impl = "SocketWriter"
  /\ pc = "AwaitWrite"
  /\ timer' = SocketWriter_recv_timer(Some(HANDSHAKE_TIMEOUT))
  /\ listeners' = listeners \cup SocketWriter_recv_listeners
  /\ read' = Pending
  /\ pc' = "AwaitAccept"
  /\ UNCHANGED << impl, bidirectional, contentTypes, failure, written, sent,
                  settleCalls, firstEvent, sock, delivered, pureVars >>

\* the write callback reports an error: writeFrame rejects, handshake rejects
SocketWriter_writeFailed ==
  /\ impl = "SocketWriter"
  /\ pc = "AwaitWrite"
  /\ pc' = "Failed"
  /\ failure' = Failure("WriteError", 0)
  /\ sock' = "errored"
  /\ UNCHANGED << impl, bidirectional, contentTypes, written, sent, listeners,
                  timer, read, settleCalls, firstEvent, delivered, pureVars >>

\* the socket emits 'data' with a chunk from the peer
SocketData ==
  \E chunk \in PeerChunks :
    /\ sock = "open"
    /\ read.state # "none"
    /\ delivered < MaxChunks
    /\ delivered' = delivered + 1
    /\ firstEvent' = First("data")
    /\ IF "data" \in listeners
         THEN RunCallback(IF impl = "Writer" THEN Encoder_recv_onData(chunk)
                          ELSE SocketWriter_recv_onData(chunk))
         ELSE NoCallback
    /\ UNCHANGED << impl, bidirectional, contentTypes, timer, sock, pureVars >>

\* the socket emits 'error' (SocketWriter.recv registers no listener for it)
SocketError ==
  /\ sock = "open"
  /\ read.state # "none"
  /\ sock' = "errored"
  /\ firstEvent' = First("error")
  /\ IF "error" \in listeners THEN RunCallback(Encoder_recv_onError) ELSE NoCallback
  /\ UNCHANGED << impl, bidirectional, contentTypes, timer, delivered, pureVars >>

\* the socket emits 'close' (SocketWriter.recv registers no listener for it)
SocketClose ==
  /\ sock \in {"open", "errored"}
  /\ read.state # "none"
  /\ sock' = "closed"
  /\ firstEvent' = First("close")
  /\ IF "close" \in listeners THEN RunCallback(Encoder_recv_onClose) ELSE NoCallback
  /\ UNCHANGED << impl, bidirectional, contentTypes, timer, delivered, pureVars >>

\* the timer set by recv fires
TimerFire ==
  /\ timer = "armed"
  /\ timer' = "fired"
  /\ firstEvent' = First("timeout")
  /\ RunCallback(IF impl = "Writer" THEN Encoder_recv_onTimeout
                 ELSE SocketWriter_recv_onTimeout)
  /\ UNCHANGED << impl, bidirectional, contentTypes, sock, delivered, pureVars >>

Next ==
  \/ Writer_init
  \/ SocketWriter_handshake
  \/ SocketWriter_writeDone
  \/ SocketWriter_writeFailed
  \/ SocketData
  \/ SocketError
  \/ SocketClose
  \/ TimerFire

Spec == Init /\ [][Next]_vars

\* the event loop runs the callback of a timer that is set and not cleared
SpecLive == Init /\ [][Next]_vars /\ WF_vars(TimerFire)

(***************************************************************************)
(* Session: one writer on one socket, its caller free to call init() or    *)
(* handshake() again once a call has returned, and to send data frames at  *)
(* any time. A timer left over from an earlier read only calls reject on a *)
(* settled promise; `timer` follows the timer of the latest read.          *)
(***************************************************************************)
\* the payloads of the data frames the caller sends
DataPayloads == { << 100, 110, 115 >> }

\* init()/handshake() has returned or thrown
Returned == pc \in {"ReadyForData", "Failed"}

\* Writer.init() is called again: the method keeps no record of earlier calls
Writer_init_again ==
  /\ impl = "Writer"
  /\ Returned
  /\ Len(written) < MaxWrites
  /\ Writer_init_body

\* SocketWriter.handshake() is called again
SocketWriter_handshake_again ==
  /\ impl = "SocketWriter"
  /\ Returned
  /\ Len(written) < MaxWrites
  /\ SocketWriter_handshake_body

\* the caller of SocketWriter sends a data frame: writeFrame(frame) looks at
\* no state of the handshake
SocketWriter_writeFrame_call ==
  \E frame \in DataPayloads :
    /\ impl = "SocketWriter"
    /\ Len(written) < MaxWrites
    /\ written' = written \o SocketWriter_writeFrame(frame)
    /\ UNCHANGED << impl, bidirectional, contentTypes, pc, failure, sent, listeners,
                    timer, read, settleCalls, firstEvent, sock, delivered, pureVars >>

\* the caller of Writer sends a data frame with the encoder and the socket
\* it built the Writer from: encoder.sendFrame(socket, frame)
Encoder_sendFrame_call ==
  \E frame \in DataPayloads :
    /\ impl = "Writer"
    /\ Len(written) < MaxWrites
    /\ written' = written \o Encoder_sendFrame(frame)
    /\ UNCHANGED << impl, bidirectional, contentTypes, pc, failure, sent, listeners,
                    timer, read, settleCalls, firstEvent, sock, delivered, pureVars >>

NextSession ==
  \/ Next
  \/ Writer_init_again
  \/ SocketWriter_handshake_again
  \/ SocketWriter_writeFrame_call
  \/ Encoder_sendFrame_call

SpecSession == Init /\ [][NextSession]_vars

(***************************************************************************)
(* Codec runs: encode an input, decode the result                          *)
(***************************************************************************)
InitCodec ==
  /\ IdleHandshake
  /\ IdleBuffers
  /\ IdleNegotiation
  /\ cStage = "input"
  /\ cType \in ControlFrameType
  /\ cTypes \in {None} \cup { Some(l) : l \in CodecLists \cup ScenarioLists }
  /\ cEnc = NoEnc
  /\ cDec = NoDec
  /\ cSend = "none"

\* Control.encode(cType, cTypes)
Codec_encode ==
  /\ cStage = "input"
  /\ cEnc' = Control_encode(cType, cTypes)
  /\ cStage' = "encoded"
  /\ UNCHANGED << cType, cTypes, cDec, cSend, hsVars, bufVars, negVars >>

\* Control.decode of the encoded bytes
Codec_decode ==
  /\ cStage = "encoded"
  /\ cEnc.ok
  /\ cDec' = Control_decode(cEnc.bytes)
  /\ cStage' = "decoded"
  /\ UNCHANGED << cType, cTypes, cEnc, cSend, hsVars, bufVars, negVars >>

\* Encoder.sendControlFrame(socket, cType, cTypes) on an open socket: the
\* buffers it writes, or the throw before any write
Codec_sendControlFrame ==
  /\ cSend = "none"
  /\ LET r == Encoder_sendControlFrame(cType, cTypes)
     IN  /\ written' = written \o r.chunks
         /\ sent' = IF r.ok THEN Append(sent, r.payload) ELSE sent
         /\ cSend' = IF r.ok THEN "sent" ELSE "threw"
  /\ UNCHANGED << impl, bidirectional, contentTypes, pc, failure, listeners,
                  timer, read, settleCalls, firstEvent, sock, delivered,
                  cStage, cType, cTypes, cEnc, cDec, bufVars, negVars >>

NextCodec == Codec_encode \/ Codec_decode \/ Codec_sendControlFrame

SpecCodec == InitCodec /\ [][NextCodec]_vars

(***************************************************************************)
(* Buffer runs: the decoders, the classifier and the data-frame codec on   *)
(* an input buffer                                                         *)
(***************************************************************************)
\* the byte values of the buffers drawn byte by byte: zero, the value of
\* ACCEPT and of CONTENT_TYPE, and a value that is no control type
SmallBytes == {0, 1, 6}

SmallBuffers == SeqUpTo(SmallBytes, MaxBufferLen)

\* control messages, whole and cut short, around the limits of Control.decode
MessageBuffers ==
  { WireMessage(t, l) : t \in ControlFrameType \cup {0, 999}, l \in PeerLists }
  \cup
  { \* exactly 512 bytes after the type
    WireMessage(ACCEPT, << Repeat(CONTROL_FRAME_LENGTH_MAX - 8) >>),
    BigEndian32(START) \o Repeat(CONTROL_FRAME_LENGTH_MAX),
    BigEndian32(999) \o Repeat(CONTROL_FRAME_LENGTH_MAX),
    \* 513 bytes after the type
    WireMessage(ACCEPT, << Repeat(CONTROL_FRAME_LENGTH_MAX - 7) >>),
    BigEndian32(ACCEPT) \o Repeat(CONTROL_FRAME_LENGTH_MAX + 1),
    BigEndian32(999) \o Repeat(CONTROL_FRAME_LENGTH_MAX + 1),
    \* a field announcing 10 bytes with 3 behind it, alone and after a whole field
    BigEndian32(ACCEPT) \o BigEndian32(1) \o BigEndian32(10) \o << 97, 98, 99 >>,
    WireMessage(ACCEPT, << TextPlain >>) \o BigEndian32(1) \o BigEndian32(10)
      \o << 97, 98, 99 >>,
    \* a field announcing 4 bytes with none behind it
    BigEndian32(READY) \o BigEndian32(1) \o BigEndian32(4),
    \* a field header cut short: 2, 4 and 6 bytes of the 8
    BigEndian32(ACCEPT) \o << 0, 0 >>,
    BigEndian32(ACCEPT) \o BigEndian32(1),
    BigEndian32(ACCEPT) \o BigEndian32(1) \o << 0, 0 >>,
    WireMessage(ACCEPT, << TextPlain >>) \o BigEndian32(1) \o << 0, 0 >>,
    \* a control frame as it is on the wire
    WireControlFrame(WireMessage(ACCEPT, << AppDnsTap >>)) }

\* control messages with a field of another type or of a declared length
\* around the limit of 512
FieldBuffers ==
  { BigEndian32(ACCEPT) \o BigEndian32(2) \o BigEndian32(3) \o << 97, 98, 99 >>,
    BigEndian32(ACCEPT) \o BigEndian32(1) \o BigEndian32(513) \o << 97, 98, 99 >>,
    BigEndian32(ACCEPT) \o BigEndian32(2) \o BigEndian32(513) \o << 97, 98, 99 >>,
    BigEndian32(ACCEPT) \o BigEndian32(1) \o BigEndian32(512) \o << 97, 98, 99 >>,
    BigEndian32(ACCEPT) \o BigEndian32(2),
    WireMessage(ACCEPT, << TextPlain >>) \o BigEndian32(2) \o BigEndian32(3)
      \o << 97, 98, 99 >>,
    WireMessage(ACCEPT, << TextPlain >>) \o BigEndian32(1) \o BigEndian32(513),
    WireMessage(READY, << TextPlain, AppDnsTap >>) }

BufferInputs == SmallBuffers \cup MessageBuffers \cup FieldBuffers

InitBuffer ==
  /\ IdleHandshake
  /\ IdleCodec
  /\ IdleNegotiation
  /\ bIn \in BufferInputs
  /\ dCtl = NoDec
  /\ dFrame = NoFrame
  /\ dKind = -1
  /\ dEnc = None
  /\ dRound = NoFrame
  /\ dEncKind = -1
  /\ dSent = FALSE

\* Control.decode(bIn)
Buffer_Control_decode ==
  /\ dCtl = NoDec
  /\ dCtl' = Control_decode(bIn)
  /\ UNCHANGED << bIn, dFrame, dKind, dEnc, dRound, dEncKind, dSent, hsVars, codecVars, negVars >>

\* Encoder.decode(bIn)
Buffer_Encoder_decode ==
  /\ dFrame = NoFrame
  /\ dFrame' = Encoder_decode(bIn)
  /\ UNCHANGED << bIn, dCtl, dKind, dEnc, dRound, dEncKind, dSent, hsVars, codecVars, negVars >>

\* Decoder.detectFrameType(bIn): the promise resolves with the frame type
Buffer_detectFrameType ==
  /\ dKind = -1
  /\ dKind' = detectFrameType(bIn)
  /\ UNCHANGED << bIn, dCtl, dFrame, dEnc, dRound, dEncKind, dSent, hsVars, codecVars, negVars >>

\* Encoder.encode(bIn), bIn taken as a payload
Buffer_Encoder_encode ==
  /\ dEnc = None
  /\ dEnc' = Some(Encoder_encode(bIn))
  /\ UNCHANGED << bIn, dCtl, dFrame, dKind, dRound, dEncKind, dSent, hsVars, codecVars, negVars >>

\* Encoder.decode of the encoded payload
Buffer_Encoder_decodeEncoded ==
  /\ dEnc.def
  /\ dRound = NoFrame
  /\ dRound' = Encoder_decode(dEnc.val)
  /\ UNCHANGED << bIn, dCtl, dFrame, dKind, dEnc, dEncKind, dSent, hsVars, codecVars, negVars >>

\* Decoder.detectFrameType of the encoded payload
Buffer_detectEncoded ==
  /\ dEnc.def
  /\ dEncKind = -1
  /\ dEncKind' = detectFrameType(dEnc.val)
  /\ UNCHANGED << bIn, dCtl, dFrame, dKind, dEnc, dRound, dSent, hsVars,
                  codecVars, negVars >>

\* Encoder.sendFrame(socket, bIn) on an open socket, bIn taken as a payload
Buffer_sendFrame ==
  /\ ~dSent
  /\ dSent' = TRUE
  /\ written' = written \o Encoder_sendFrame(bIn)
  /\ UNCHANGED << impl, bidirectional, contentTypes, pc, failure, sent, listeners,
                  timer, read, settleCalls, firstEvent, sock, delivered,
                  bIn, dCtl, dFrame, dKind, dEnc, dRound, dEncKind,
                  codecVars, negVars >>

NextBuffer ==
  \/ Buffer_Control_decode
  \/ Buffer_Encoder_decode
  \/ Buffer_detectFrameType
  \/ Buffer_Encoder_encode
  \/ Buffer_Encoder_decodeEncoded
  \/ Buffer_detectEncoded
  \/ Buffer_sendFrame

SpecBuffer == InitBuffer /\ [][NextBuffer]_vars

(***************************************************************************)
(* Negotiation runs: checkContentTypes of a configured Control             *)
(***************************************************************************)
\* "a", "A" and "text/plain"
NegotiationStrings == { << 97 >>, << 65 >>, TextPlain }

NegotiationLists == SeqUpTo(NegotiationStrings, MaxTypes)

InitNegotiation ==
  /\ IdleHandshake
  /\ IdleCodec
  /\ IdleBuffers
  /\ kOwn \in {None} \cup { Some(l) : l \in NegotiationLists }
  /\ kCand \in NegotiationLists
  /\ kRes = "none"

\* new Control(kOwn).checkContentTypes(kCand)
Negotiation_checkContentTypes ==
  /\ kRes = "none"
  /\ kRes' = IF Control_checkContentTypes(kOwn, kCand) THEN "true" ELSE "false"
  /\ UNCHANGED << kOwn, kCand, hsVars, codecVars, bufVars >>

NextNegotiation == Negotiation_checkContentTypes

SpecNegotiation == InitNegotiation /\ [][NextNegotiation]_vars

(***************************************************************************)
(* Properties                                                              *)
(***************************************************************************)
\* number of UTF-8 bytes of a code point, by the ranges of the encoding
Utf8Width(c) ==
  IF c < 128 THEN 1 ELSE IF c < 2048 THEN 2 ELSE IF c < 65536 THEN 3 ELSE 4

Utf8Length(str) ==
  LET n(k) == Cardinality({ i \in 1..Len(str) : Utf8Width(str[i]) = k })
  IN  n(1) + 2 * n(2) + 3 * n(3) + 4 * n(4)

RECURSIVE FieldBytes(_)
\* bytes the fields of a content-type list take in a control message
FieldBytes(list) ==
  IF list = <<>> THEN 0 ELSE 8 + Utf8Length(Head(list)) + FieldBytes(Tail(list))

\* no unpaired surrogate in any string of the list
WellFormed(list) ==
  \A i \in 1..Len(list) : \A j \in 1..Len(list[i]) : ~IsSurrogate(list[i][j])

RoundTripTypes == {ACCEPT, START, READY}

\* C1 (as stated): for ACCEPT, START, READY and every content-type list,
\* a 512-byte string included, decode(encode(type, types)) succeeds and
\* returns the same type and the same list. Stated here for lists of
\* well-formed strings, the reading most favourable to the claim.
C1_RoundTripEveryList ==
  (cType \in RoundTripTypes /\ cTypes.def /\ WellFormed(cTypes.val)) =>
    /\ cStage # "input" => cEnc.ok
    /\ cStage = "decoded" =>
         cDec.ok /\ cDec.type = cType /\ cDec.contentTypes = cTypes.val

\* C1 (amended): the round trip holds for every list of well-formed strings
\* whose fields take at most 512 bytes in the message; a list whose fields
\* take more (a 512-byte string takes 520) is encoded, and decoding the
\* result fails with the length-exceeded error.
C1_RoundTripWithinLimit ==
  (cType \in RoundTripTypes /\ cTypes.def) =>
    /\ cStage # "input" => cEnc.ok
    /\ (cStage = "decoded" /\ FieldBytes(cTypes.val) <= CONTROL_FRAME_LENGTH_MAX
          /\ WellFormed(cTypes.val)) =>
         cDec.ok /\ cDec.type = cType /\ cDec.contentTypes = cTypes.val
    /\ (cStage = "decoded" /\ FieldBytes(cTypes.val) > CONTROL_FRAME_LENGTH_MAX) =>
         ~cDec.ok /\ cDec.err = "LengthExceeded"

\* C1 witness: a list holding a non-ASCII string twice has gone through
\* encode and decode unchanged
C1_Witness ==
  /\ cStage = "decoded"
  /\ cType = READY
  /\ cTypes = Some(<< NonAscii, NonAscii >>)
  /\ cDec.ok
  /\ cDec.contentTypes = << NonAscii, NonAscii >>

(***************************************************************************)
(* The byte stream as a receiver reads it (wire format)                    *)
(***************************************************************************)
BigEndianValue(b) == b[1] * 16777216 + b[2] * 65536 + b[3] * 256 + b[4]

\* everything written to the socket, in order
WrittenBytes == ConcatRange(written, 1, Len(written))

RECURSIVE ParseFrames(_)
\* the frames of a byte stream: a zero length word announces a control frame
ParseFrames(b) ==
  IF Len(b) < 4 THEN <<>>
  ELSE IF SubSeq(b, 1, 4) = << 0, 0, 0, 0 >>
    THEN IF Len(b) < 8 \/ Len(b) < 8 + BigEndianValue(SubSeq(b, 5, 8))
           THEN << [kind |-> "truncated", payload |-> <<>>] >>
           ELSE LET n == BigEndianValue(SubSeq(b, 5, 8))
                IN  << [kind |-> "control", payload |-> SubSeq(b, 9, 8 + n)] >>
                    \o ParseFrames(SubSeq(b, 9 + n, Len(b)))
    ELSE IF Len(b) < 4 + BigEndianValue(SubSeq(b, 1, 4))
           THEN << [kind |-> "truncated", payload |-> <<>>] >>
           ELSE LET n == BigEndianValue(SubSeq(b, 1, 4))
                IN  << [kind |-> "data", payload |-> SubSeq(b, 5, 4 + n)] >>
                    \o ParseFrames(SubSeq(b, 5 + n, Len(b)))

WireFrames == ParseFrames(WrittenBytes)

\* the types of the control frames on the wire, in order (0 for a frame that
\* is no control frame with a type)
WireControlTypes ==
  [i \in 1..Len(WireFrames) |->
     IF WireFrames[i].kind = "control" /\ Len(WireFrames[i].payload) >= 4
       THEN BigEndianValue(WireFrames[i].payload) ELSE 0]

\* the types of the control messages handed over for sending
SentTypes == [i \in 1..Len(sent) |-> BigEndianValue(sent[i])]

StartSent ==
  \/ \E i \in 1..Len(SentTypes) : SentTypes[i] = START
  \/ \E i \in 1..Len(WireControlTypes) : WireControlTypes[i] = START

\* data is the payload of a well-formed control message of type t
IsMessageOfType(data, t) == \E l \in PeerLists : data = WireMessage(t, l)

\* the configured list, none when unconfigured
ConfiguredList == IF contentTypes.def THEN contentTypes.val ELSE <<>>

(***************************************************************************)
(* C2                                                                      *)
(***************************************************************************)
C2_Order ==
  (impl = "Writer" /\ bidirectional) =>
    /\ WireControlTypes \in { <<>>, << READY >>, << READY, START >> }
    /\ StartSent =>
         /\ read.state = "resolved"
         /\ Len(read.data) >= 4
         /\ BigEndianValue(read.data) = ACCEPT

C2_StartStep ==
  (impl = "Writer" /\ bidirectional /\ ~StartSent /\ StartSent') =>
    /\ WireControlTypes = << READY >>
    /\ delivered = 0
    /\ delivered' = 1
    /\ read.state = "pending"
    /\ read'.state = "resolved"

\* C2: in a bidirectional Writer.init the control messages on the wire are
\* READY, then START; START is written in the step that hands the first and
\* only inbound message to the read, and only when its type is ACCEPT.
C2_ReadyBeforeStartAfterAccept == [](C2_Order) /\ [][C2_StartStep]_vars

\* C2 witness: READY and START are on the wire after an ACCEPT was received
C2_Witness ==
  /\ impl = "Writer"
  /\ bidirectional
  /\ WireControlTypes = << READY, START >>
  /\ read.state = "resolved"
  /\ read.data = WireMessage(ACCEPT, << AppDnsTap >>)

(***************************************************************************)
(* C3                                                                      *)
(***************************************************************************)
\* C3 (as stated): an ACCEPT delivered as a control frame of the wire format
\* (escape marker, length, payload), carrying a configured content type, is
\* taken as ACCEPT and the handshake completes.
C3_WireFormatAcceptCompletes ==
  ( /\ bidirectional
    /\ contentTypes = Some(<< AppDnsTap >>)
    /\ read.state = "resolved"
    /\ read.data = WireControlFrame(WireMessage(ACCEPT, << AppDnsTap >>)) )
  => pc = "ReadyForData"

(***************************************************************************)
(* C4                                                                      *)
(***************************************************************************)
OtherTypes == {START, STOP, READY, FINISH}

\* C4: when the reply to READY is a control message of a type other than
\* ACCEPT, the handshake has failed with UnexpectedType, the failure carries
\* the observed type, and no START is sent.
C4_UnexpectedTypeFails ==
  \A t \in OtherTypes :
    (bidirectional /\ read.state = "resolved" /\ IsMessageOfType(read.data, t)) =>
      /\ pc = "Failed"
      /\ failure = Failure("UnexpectedType", t)
      /\ ~StartSent

\* C4 witness: the peer answered READY with START and the handshake failed
C4_Witness ==
  /\ bidirectional
  /\ read.state = "resolved"
  /\ read.data = WireMessage(START, << AppDnsTap >>)
  /\ pc = "Failed"
  /\ failure = Failure("UnexpectedType", START)

(***************************************************************************)
(* C5                                                                      *)
(***************************************************************************)
\* C5 (as stated): an ACCEPT whose content types share nothing with the
\* configured ones fails the handshake with UnsupportedContentType and no
\* START is sent, for Writer.init and for SocketWriter.handshake.
C5_UnsupportedContentTypeFails ==
  ( /\ bidirectional
    /\ contentTypes = Some(<< AppDnsTap >>)
    /\ read.state = "resolved"
    /\ read.data = WireMessage(ACCEPT, << TextPlain >>) )
  => /\ pc = "Failed"
     /\ failure.kind = "UnsupportedContentType"
     /\ ~StartSent

(***************************************************************************)
(* C6, C7, C8                                                              *)
(***************************************************************************)
\* C6 (as stated): when the timeout is the first thing to happen to the
\* read, the read fails with the timeout error, the handshake fails without
\* START, and no data, error or close callback of the read is registered.
C6_TimeoutCleansUp ==
  firstEvent = "timeout" =>
    /\ read = Reject("Timeout")
    /\ pc = "Failed"
    /\ failure.kind = "Timeout"
    /\ ~StartSent
    /\ listeners = {}

\* the outcome each event produces
SettledBy(ev) ==
  CASE ev = "data" -> read.state = "resolved"
    [] ev = "error" -> read = Reject("TransportError")
    [] ev = "close" -> read = Reject("TransportClosed")
    [] ev = "timeout" -> read = Reject("Timeout")
    [] OTHER -> FALSE

\* C7 (as stated): once one of data, error, close, timeout has fired, the
\* read is settled with the outcome of that first event, whatever fires later.
C7_SettledByFirstEvent ==
  firstEvent # "none" => SettledBy(firstEvent)

\* C8 (as stated): after the read has settled by data, error or close, no
\* listener and no timer of that read remains registered.
C8_AllDeregisteredOnSettle ==
  ( \/ read.state = "resolved"
    \/ read = Reject("TransportError")
    \/ read = Reject("TransportClosed") )
  => listeners = {} /\ timer # "armed"

C10_ControlFramesOnWire ==
  WrittenBytes =
    ConcatRange([i \in 1..Len(sent) |-> WireControlFrame(sent[i])], 1, Len(sent))

(***************************************************************************)
(* C11                                                                     *)
(***************************************************************************)
\* C11: encoding STOP or FINISH with a non-empty list of content types
\* fails with FieldNotAllowed and gives no bytes, in Control.encode and in
\* Encoder.sendControlFrame, which writes nothing to the socket.
C11_StopFinishRejectContentTypes ==
  (cType \in {STOP, FINISH} /\ cTypes.def /\ cTypes.val # <<>>) =>
    /\ cStage # "input" =>
         ~cEnc.ok /\ cEnc.err = "FieldNotAllowed" /\ cEnc.bytes = <<>>
    /\ cStage # "decoded"
    /\ cSend # "sent"
    /\ written = <<>>
    /\ sent = <<>>

\* C11 witness: FINISH with one content type has been through both encoders
C11_Witness ==
  /\ cType = FINISH
  /\ cTypes = Some(<< NonAscii >>)
  /\ cStage = "encoded"
  /\ ~cEnc.ok
  /\ cSend = "threw"
  /\ written = <<>>

(***************************************************************************)
(* C12, C13, C14, C15: Control.decode on a buffer                          *)
(***************************************************************************)
\* Control.decode(bIn) has run
ControlDecoded == dCtl # NoDec

\* the bytes after the 4-byte type
AfterType == IF Len(bIn) <= 4 THEN <<>> ELSE SubSeq(bIn, 5, Len(bIn))

\* C12: Control.decode fails with TooShort for every input of fewer than 4
\* bytes, the empty one included, and returns no type and no content types.
C12_ShortInputTooShort ==
  (Len(bIn) < 4 /\ ControlDecoded) =>
    /\ ~dCtl.ok
    /\ dCtl.err = "TooShort"
    /\ dCtl.type = 0
    /\ dCtl.contentTypes = <<>>

\* C12 witness: a 3-byte input has been rejected as too short
C12_Witness ==
  /\ bIn = << 0, 0, 1 >>
  /\ ~dCtl.ok
  /\ dCtl.err = "TooShort"

\* C13: for an input of at least 4 bytes, Control.decode fails with the
\* length-exceeded error exactly when more than 512 bytes follow the type,
\* whatever the type is: 513 bytes after an invalid type report the length.
C13_LengthExceededOver512 ==
  (Len(bIn) >= 4 /\ ControlDecoded) =>
    /\ (dCtl.err = "LengthExceeded") <=> (Len(bIn) - 4 > 512)
    /\ dCtl.err = "LengthExceeded" => ~dCtl.ok
    /\ (Len(bIn) - 4 = 513 /\ SubSeq(bIn, 1, 4) = BigEndian32(999)) =>
         dCtl.err = "LengthExceeded"

\* C13 witness: 513 bytes after the invalid type 999 gave the length error
C13_Witness ==
  /\ bIn = BigEndian32(999) \o Repeat(513)
  /\ ~dCtl.ok
  /\ dCtl.err = "LengthExceeded"

\* C14: for an input of at least 4 bytes with at most 512 bytes after the
\* type, Control.decode fails with InvalidType exactly when the big-endian
\* value of the first 4 bytes is not one of 1, 2, 3, 4, 5.
C14_InvalidTypeOutsideOneToFive ==
  (Len(bIn) >= 4 /\ Len(bIn) - 4 <= 512 /\ ControlDecoded) =>
    /\ (dCtl.err = "InvalidType") <=>
         (BigEndianValue(SubSeq(bIn, 1, 4)) \notin {1, 2, 3, 4, 5})
    /\ dCtl.err = "InvalidType" => ~dCtl.ok

\* C14 witness: a message of type 0 carrying a content type was rejected
\* for its type
C14_Witness ==
  /\ bIn = WireMessage(0, << AppDnsTap >>)
  /\ ~dCtl.ok
  /\ dCtl.err = "InvalidType"

RECURSIVE TruncatedFields(_)
\* b, read as a run of fields, ends inside a field: fewer than 8 bytes where
\* a header begins, or fewer bytes behind a header than it announces
TruncatedFields(b) ==
  IF b = <<>> THEN FALSE
  ELSE IF Len(b) < 8 THEN TRUE
  ELSE LET n == BigEndianValue(SubSeq(b, 5, 8))
       IN  IF Len(b) - 8 < n THEN TRUE
           ELSE TruncatedFields(SubSeq(b, 9 + n, Len(b)))

\* C15 (as stated): Control.decode of a message that ends inside a field
\* fails; it never returns a result.
C15_TruncatedNeverSucceeds ==
  (Len(bIn) >= 4 /\ TruncatedFields(AfterType) /\ ControlDecoded) => ~dCtl.ok

(***************************************************************************)
(* C16                                                                     *)
(***************************************************************************)
\* the strings of a list
Strings(list) == { list[i] : i \in 1..Len(list) }

\* C16: checkContentTypes(candidate) is true exactly when the configured
\* content types are set, not empty and share a string with candidate,
\* strings compared exactly ("a" is not "A").
C16_TrueIffIntersect ==
  kRes # "none" =>
    /\ (kRes = "true") <=>
         (kOwn.def /\ kOwn.val # <<>> /\ Strings(kOwn.val) \cap Strings(kCand) # {})
    /\ (~kOwn.def \/ kOwn.val = <<>>) => kRes = "false"
    /\ (kOwn = Some(<< << 97 >> >>) /\ kCand = << << 65 >> >>) => kRes = "false"

\* C16 witness: configured "a", "text/plain"; candidate "A", "text/plain";
\* the answer is true
C16_Witness ==
  /\ kOwn = Some(<< << 97 >>, TextPlain >>)
  /\ kCand = << << 65 >>, TextPlain >>
  /\ kRes = "true"

(***************************************************************************)
(* C17                                                                     *)
(***************************************************************************)
FirstFourZero == Len(bIn) >= 4 /\ \A i \in 1..4 : bIn[i] = 0

\* C17: detectFrameType answers CONTROL exactly when the first 4 bytes of
\* the input are all zero, and DATA for every other input of 4 bytes or more.
C17_ControlIffEscape ==
  dKind # -1 =>
    /\ (dKind = FrameType_CONTROL) <=> FirstFourZero
    /\ (Len(bIn) >= 4 /\ ~FirstFourZero) => dKind = FrameType_DATA

\* C17 witness: a control frame of the wire format was classified CONTROL
C17_Witness ==
  /\ bIn = WireControlFrame(WireMessage(ACCEPT, << AppDnsTap >>))
  /\ dKind = FrameType_CONTROL

(***************************************************************************)
(* C18, C19: the data-frame codec                                          *)
(***************************************************************************)
\* C18: Encoder.encode(p) is the 4-byte big-endian length of p followed by
\* p, and Encoder.decode of it gives size Len(p) and payload p, the empty
\* payload included.
C18_DataFrameRoundTrip ==
  /\ dEnc.def =>
       /\ dEnc.val = BigEndian32(Len(bIn)) \o bIn
       /\ Len(dEnc.val) = Len(bIn) + 4
  /\ dRound # NoFrame =>
       /\ dRound.ok
       /\ dRound.size = Len(bIn)
       /\ dRound.payload = bIn
  /\ (bIn = <<>> /\ dEnc.def) => dEnc.val = << 0, 0, 0, 0 >>

\* C18 witness: a payload of more than 255 bytes came back from the round trip
C18_Witness ==
  /\ Len(bIn) > 255
  /\ dRound.ok
  /\ dRound.size = Len(bIn)
  /\ dRound.payload = bIn

\* C19: Encoder.decode fails for every input of fewer than 4 bytes and
\* returns no size and no payload.
C19_ShortFrameFails ==
  (Len(bIn) < 4 /\ dFrame # NoFrame) =>
    /\ ~dFrame.ok
    /\ dFrame.err # ""
    /\ dFrame.size = 0
    /\ dFrame.payload = <<>>

\* C19 witness: Encoder.decode of 3 zero bytes has thrown
C19_Witness ==
  /\ bIn = << 0, 0, 0 >>
  /\ ~dFrame.ok
  /\ dFrame.err = "RangeError"

(***************************************************************************)
(* C20                                                                     *)
(***************************************************************************)
RECURSIVE FieldsMatch(_, _)
\* b is, for each string of the list in order: the word 1, the word holding
\* the UTF-8 length of the string, and bytes of that length which read back
\* as the string
FieldsMatch(b, list) ==
  IF list = <<>> THEN b = <<>>
  ELSE LET n == Utf8Length(Head(list))
       IN  /\ Len(b) >= 8 + n
           /\ SubSeq(b, 1, 4) = BigEndian32(1)
           /\ SubSeq(b, 5, 8) = BigEndian32(n)
           /\ toString(SubSeq(b, 9, 8 + n)) = Head(list)
           /\ FieldsMatch(SubSeq(b, 9 + n, Len(b)), Tail(list))

\* C20: for ACCEPT, START and READY, Control.encode gives the big-endian
\* type and then, per content type in order, the word 1, the UTF-8 byte
\* length and the UTF-8 bytes (strings without unpaired surrogates); with
\* no content types it gives the 4 type bytes, encode(START) = 00 00 00 02.
C20_EncodeLayout ==
  (cType \in RoundTripTypes /\ cStage # "input") =>
    /\ cEnc.ok
    /\ Len(cEnc.bytes) >= 4
    /\ SubSeq(cEnc.bytes, 1, 4) = BigEndian32(cType)
    /\ (cTypes.def /\ WellFormed(cTypes.val)) =>
         FieldsMatch(SubSeq(cEnc.bytes, 5, Len(cEnc.bytes)), cTypes.val)
    /\ (~cTypes.def \/ cTypes.val = <<>>) => Len(cEnc.bytes) = 4
    /\ (cType = START /\ ~cTypes.def) => cEnc.bytes = << 0, 0, 0, 2 >>

\* C20 witness: READY with a non-ASCII string and "a" has been encoded
C20_Witness ==
  /\ cType = READY
  /\ cTypes = Some(<< NonAscii, << 97 >> >>)
  /\ cStage = "encoded"
  /\ cEnc.ok
  /\ Len(cEnc.bytes) = 4 + 8 + 9 + 8 + 1

(***************************************************************************)
(* C21                                                                     *)
(***************************************************************************)
ScenarioB == cType = START /\ cTypes = Some(<< AppDnsTap >>)

\* C21 (as stated): encode(START, ["application/dns-tap"]) is 32 bytes:
\* 00 00 00 02, 00 00 00 01, the length 00 00 00 14 and 20 bytes of string;
\* decoding gives START with that one content type.
C21_ScenarioB_ThirtyTwoBytes ==
  (ScenarioB /\ cStage # "input") =>
    /\ cEnc.ok
    /\ Len(cEnc.bytes) = 32
    /\ SubSeq(cEnc.bytes, 1, 12) = << 0, 0, 0, 2, 0, 0, 0, 1, 0, 0, 0, 20 >>
    /\ cStage = "decoded" =>
         cDec.ok /\ cDec.type = START /\ cDec.contentTypes = << AppDnsTap >>

\* C21 (amended): encode(START, ["application/dns-tap"]) is 31 bytes:
\* 00 00 00 02, 00 00 00 01, the length 00 00 00 13 and the 19 ASCII bytes
\* of the string; decoding gives START with that one content type.
C21_ScenarioB_ThirtyOneBytes ==
  (ScenarioB /\ cStage # "input") =>
    /\ cEnc.ok
    /\ Len(cEnc.bytes) = 31
    /\ SubSeq(cEnc.bytes, 1, 12) = << 0, 0, 0, 2, 0, 0, 0, 1, 0, 0, 0, 19 >>
    /\ SubSeq(cEnc.bytes, 13, 31) = AppDnsTap
    /\ cStage = "decoded" =>
         cDec.ok /\ cDec.type = START /\ cDec.contentTypes = << AppDnsTap >>

\* C21 witness: the message has been encoded and decoded
C21_Witness ==
  /\ ScenarioB
  /\ cStage = "decoded"
  /\ Len(cEnc.bytes) = 31
  /\ cDec.ok
  /\ cDec.contentTypes = << AppDnsTap >>

(***************************************************************************)
(* C22                                                                     *)
(***************************************************************************)
RECURSIVE FirstFieldFault(_)
\* b read field by field from the left: what is wrong with the first field
\* that is not a whole CONTENT_TYPE field of at most 512 declared bytes.
\* The type word is looked at first, then the length word, then the value
\* is skipped.
FirstFieldFault(b) ==
  IF b = <<>> THEN "none"
  ELSE IF Len(b) < 4 THEN "cut"
  ELSE IF BigEndianValue(SubSeq(b, 1, 4)) # 1 THEN "InvalidField"
  ELSE IF Len(b) < 8 THEN "cut"
  ELSE LET n == BigEndianValue(SubSeq(b, 5, 8))
       IN  IF n > 512 THEN "FieldTooLong"
           ELSE IF Len(b) - 8 <= n THEN "none"
           ELSE FirstFieldFault(SubSeq(b, 9 + n, Len(b)))

\* C22: Control.decode of a message with a valid type fails with
\* InvalidField exactly when the first faulty field has a type other than 1,
\* and with FieldTooLong exactly when it has type 1 and a declared length
\* over 512 (whatever bytes follow the header); no content types are
\* returned in either case.
C22_FieldTypeThenLength ==
  ( /\ Len(bIn) >= 4
    /\ Len(bIn) - 4 <= 512
    /\ BigEndianValue(SubSeq(bIn, 1, 4)) \in {1, 2, 3, 4, 5}
    /\ ControlDecoded )
  => /\ (dCtl.err = "InvalidField") <=> (FirstFieldFault(AfterType) = "InvalidField")
     /\ (dCtl.err = "FieldTooLong") <=> (FirstFieldFault(AfterType) = "FieldTooLong")
     /\ dCtl.err \in {"InvalidField", "FieldTooLong"} =>
          ~dCtl.ok /\ dCtl.contentTypes = <<>>

\* C22 witness: after a whole field, a field announcing 513 bytes was
\* rejected for its length
C22_Witness ==
  /\ bIn = WireMessage(ACCEPT, << TextPlain >>) \o BigEndian32(1) \o BigEndian32(513)
  /\ ~dCtl.ok
  /\ dCtl.err = "FieldTooLong"
  /\ dCtl.contentTypes = <<>>

(***************************************************************************)
(* C23                                                                     *)
(***************************************************************************)
\* C23 (as stated): STOP and FINISH with the content types absent or given
\* as an empty list are encoded, by Control.encode and by
\* Encoder.sendControlFrame, as the 4 type bytes with no field.
C23_StopFinishWithoutFieldsEncoded ==
  (cType \in {STOP, FINISH} /\ (~cTypes.def \/ cTypes.val = <<>>)) =>
    /\ cStage # "input" => cEnc.ok /\ cEnc.bytes = BigEndian32(cType)
    /\ cSend # "threw"
    /\ cSend = "sent" => sent = << BigEndian32(cType) >>

(***************************************************************************)
(* C24                                                                     *)
(***************************************************************************)
\* C24 (as stated): when the ACCEPT received carries no content-type field,
\* the bidirectional handshake does not fail with UnsupportedContentType,
\* whatever content types are configured.
C24_BareAcceptNotUnsupported ==
  ( /\ bidirectional
    /\ read.state = "resolved"
    /\ read.data = WireMessage(ACCEPT, <<>>) )
  => failure.kind # "UnsupportedContentType"

(***************************************************************************)
(* C25                                                                     *)
(***************************************************************************)
Terminal == pc \in {"ReadyForData", "Failed"}

\* C25: a handshake waiting for ACCEPT always ends, in ReadyForData or in
\* Failed, whether the peer stays silent, sends bytes, closes, or the socket
\* reports an error, given that a set timer fires; for Writer.init and for
\* SocketWriter.handshake.
C25_WaitForAcceptEnds == (pc = "AwaitAccept") ~> Terminal

\* C25 witness: the peer closed the connection, which SocketWriter.recv does
\* not listen for, and the handshake ended by its timer
C25_Witness ==
  /\ impl = "SocketWriter"
  /\ firstEvent = "close"
  /\ sock = "closed"
  /\ pc = "Failed"
  /\ failure.kind = "Timeout"

(***************************************************************************)
(* C26                                                                     *)
(***************************************************************************)
\* how many control messages of type t were handed over for sending
SentCount(t) == Cardinality({ i \in 1..Len(SentTypes) : SentTypes[i] = t })

\* C26 (as stated): over any sequence of calls of init()/handshake() on one
\* writer, READY is sent at most once and START at most once.
C26_ReadyAndStartAtMostOnce ==
  SentCount(READY) <= 1 /\ SentCount(START) <= 1

(***************************************************************************)
(* C27                                                                     *)
(***************************************************************************)
\* C27 (as stated): every data frame on the wire has the START control
\* frame of the session before it.
C27_DataFramesAfterStart ==
  \A i \in 1..Len(WireFrames) :
    WireFrames[i].kind = "data" =>
      \E j \in 1..(i - 1) : WireControlTypes[j] = START

=============================================================================
